---- MODULE Spec2Model ----
(***************************************************************************)
(* The actor runtime of brdlb/agents: src/actors/message.py (envelope),    *)
(* src/actors/base.py (Actor: mailbox, dispatch loop, tell/ask, stop) and  *)
(* src/actors/system.py (ActorSystem: registry, spawn/send/stop/broadcast),*)
(* with the concrete responders of src/actors/actors/.                     *)
(*                                                                         *)
(* The runtime is single-threaded asyncio: a coroutine runs until it       *)
(* awaits something that really suspends.  spawn, send, stop and broadcast *)
(* never suspend (the mailbox is an unbounded asyncio.Queue, so put        *)
(* returns at once), hence each is one atomic action.  A dispatch task     *)
(* suspends in wait_for(mailbox.get()) and wherever its handler awaits an  *)
(* external collaborator.                                                  *)
(***************************************************************************)
EXTENDS Integers, Sequences, FiniteSets, Bags, TLC


\* ------------------------------------------------------------------ bounds
RegSpawns == 3          \* spawn calls in one run of RegSpec
RegStops == 1           \* stop calls in one run of RegSpec
MsgSpawns == 2          \* spawn calls in one run of MsgSpec
MsgSends == 3           \* send calls in one run of MsgSpec
MsgFails == 1           \* handler invocations that raise in one run of MsgSpec
FailSpawns == 1         \* spawn calls in one run of FailSpec
FailStops == 1          \* stop calls in one run of FailSpec
FailSends == 2          \* send calls in one run of FailSpec
FailFails == 1          \* handler invocations that raise in one run of FailSpec
KinSpawns == 3          \* spawn / spawn_child calls in one run of KinSpec
KinStops == 2           \* stop calls in one run of KinSpec
HaltSpawns == 2         \* spawn calls in one run of HaltSpec
HaltStops == 1          \* stop_all calls in one run of HaltSpec
DutySends == 2          \* envelopes sent to the responder in one run of DutySpec
CodecIds == 2           \* envelope ids in CodecSpec
CodecClock == 1         \* latest timestamp in CodecSpec
AgentSpawns == 1        \* spawn_child calls in one run of AgentSpec
AgentAsks == 1          \* ask calls in one run of AgentSpec
MaxRounds == 5          \* range(5) in ActorAgent.run
StoreCalls == 2         \* concurrent JSONStore.update calls in one run of StoreSpec
LoneSpawns == 2         \* spawn and spawn_child calls in one run of LoneSpec
LoneSends == 1          \* tell calls in one run of LoneSpec
LoneAsks == 1           \* ask calls in one run of LoneSpec
SoleHandles == 3        \* ActorSystem() calls in one run of SoleSpec
SoleSpawns == 2         \* spawn calls in one run of SoleSpec
SoleStops == 1          \* stop calls in one run of SoleSpec
WardSpawns == 3         \* spawn calls in one run of WardSpec
WardSends == 1          \* send calls in one run of WardSpec
WardFails == 1          \* handler invocations that raise in one run of WardSpec
StallSpawns == 1        \* spawn calls in one run of StallSpec
StallStops == 1         \* stop calls in one run of StallSpec
StallSends == 2         \* send calls in one run of StallSpec
CopySpawns == 2         \* spawn calls in one run of CopySpec
CopyCalls == 1          \* broadcast calls in one run of CopySpec
CopyLen == 2            \* length of the identity list given to broadcast in CopySpec
DropSpawns == 1         \* spawn calls in one run of DropSpec
DropStops == 1          \* stop calls in one run of DropSpec
DropSends == 1          \* requests sent to the responder in one run of DropSpec
SendSpawns == 2         \* spawn calls in one run of SendSpec
SendStops == 1          \* stop calls in one run of SendSpec
SendCalls == 2          \* send / tell calls in one run of SendSpec
CastSpawns == 2         \* spawn calls in one run of CastSpec
CastCalls == 1          \* broadcast calls in one run of CastSpec
MaxBroadcast == 3       \* length of the identity list given to broadcast
AskCalls == 2           \* ask calls in one run of AskSpec
MaxTimeout == 1         \* the timeout given to ask in AskSpec, in clock ticks
WaitCalls == 1          \* ask calls in one run of WaitSpec
WaitTimeout == 1        \* the timeout given to ask in WaitSpec, in clock ticks
RecursionLimit == 5     \* nesting depth at which the interpreter raises RecursionError

\* ---------------------------------------------------------------- universe
None == "None"
Ids == {"a", "b", "c"}
Actors == {1, 2, 3, 4}
NoActor == 0

\* correlation_id of an envelope that has none (envelope ids start at 1)
NoCorrelation == 0

\* Actor.__init__: the identity the application gave each instance.  Two
\* instances share the identity "a" so that a second spawn of a registered
\* identity with a different instance can happen.
ActorId(i) == IF i = 1 THEN "a" ELSE IF i = 2 THEN "b" ELSE IF i = 3 THEN "c" ELSE "a"

\* ActorMessage.  timestamp defaults to the clock reading at construction;
\* nothing in the runtime reads it, so the model's clock stands at 0 and only
\* a constructor call that is given a timestamp sets another value.
ActorMessage(id, sender, recipient, payload, kind, reply_to, correlation_id) ==
    [id |-> id, sender |-> sender, recipient |-> recipient, payload |-> payload,
     message_type |-> kind, reply_to |-> reply_to, correlation_id |-> correlation_id,
     timestamp |-> 0]

NoMsg == ActorMessage(0, None, None, None, None, None, NoCorrelation)

\* The id a handler gives an envelope it builds is f"..._{uuid4}", fresh every
\* time; the model writes it as the negated id of the envelope being handled,
\* which no other envelope carries (the application's ids are 1, 2, ...).
FreshId(m) == 0 - m.id

\* one dispatch task: which instance it runs, where it is, the envelope in its handler
Task(i, pc, m) == [actor |-> i, pc |-> pc, msg |-> m]

\* one ask call: the instance whose ask runs, the request, the ticks left
\* until wait_for gives up, how the call stands ("free" = not made yet,
\* "waiting", "timeout", "returned"), the envelope it returned, and (history)
\* whether a reply correlated to the request reached the reply_to mailbox
\* while the call was waiting
AskCall(i, req, left, status, result, matched) ==
    [actor |-> i, req |-> req, left |-> left, status |-> status, result |-> result,
     matched |-> matched]

NoAsk == AskCall(NoActor, NoMsg, 0, "free", NoMsg, FALSE)

AskSlots == 1 .. AskCalls

VARIABLES
    actors,      \* ActorSystem.actors: identity -> instance (NoActor = absent)
    role,        \* the concrete class of each instance
    system,      \* Actor.system is set
    parent_id,   \* Actor.parent_id
    children,    \* Actor.children
    state,       \* Actor.state
    running,     \* Actor._running
    mailbox,     \* Actor.mailbox
    tasks,       \* the tasks made by asyncio.create_task(actor._run())
    asks,        \* the ask calls of the run
    handled,     \* history: envelopes passed to receive, per instance
    sent,        \* history: envelopes handed to ActorSystem.send, in order
    nextId,      \* next fresh envelope id
    budget,      \* how many calls of each kind the run may still make
    last         \* the latest call of the application (or handler outcome) and its result

\* the ActorSystem class and the handles the application holds.  The variable
\* actors is the dict that the object owner carries as its attribute actors.
VARIABLES
    instance,    \* ActorSystem._instance (NoSystem = None)
    initialized, \* ActorSystem._initialized
    handles,     \* the objects the calls ActorSystem() returned, in order
    owner        \* the object whose attribute actors is set (NoSystem = none yet)

singleton == <<instance, initialized, handles, owner>>

\* one JSON file of a JSONStore and the update calls running on it
VARIABLES
    file,        \* the parsed content of the file (Absent = no such file)
    temp,        \* the parsed content of the .tmp file beside it
    lock,        \* the update call that holds the file's lock (NoCall = free)
    updates      \* each update call: where it is, what it read, what it writes

store == <<file, temp, lock, updates>>

\* one ActorAgent.run call
VARIABLES
    generated,   \* provider.generate calls made so far
    toolCalls,   \* tool calls of the latest response that are still to be handled
    phase,       \* where run is: "thinking", "tools", "returned", "raised"
    result       \* the text run returned or the exception it raised (None = neither yet)

agent == <<generated, toolCalls, phase, result>>

\* one envelope on its way through to_dict and from_dict
VARIABLES
    envelope,    \* the ActorMessage m
    wire,        \* m.to_dict(), or the exception it raised
    decoded      \* ActorMessage.from_dict(wire), or the exception it raised

codec == <<envelope, wire, decoded>>

\* what the actor runtime's own steps leave alone
others == <<singleton, store, agent, codec>>

vars == <<actors, role, system, parent_id, children, state, running, mailbox, tasks,
          asks, handled, sent, nextId, budget, last, others>>

NoSystem == 0

\* the class attributes before the first ActorSystem() call
Unconstructed ==
    /\ instance = NoSystem
    /\ initialized = FALSE
    /\ handles = <<>>
    /\ owner = NoSystem

\* ActorSystem(): the class after the application's one construction
Constructed ==
    /\ instance = 1
    /\ initialized = TRUE
    /\ handles = <<1>>
    /\ owner = 1

Absent == "Absent"
NoCall == 0
Callers == 1 .. StoreCalls

\* one JSONStore.update call: its place, and the locals current and updated
Update(pc, current, updated) == [pc |-> pc, current |-> current, updated |-> updated]

\* no update call was made; the file does not exist, or holds the empty
\* dict or one earlier entry
StoreInit ==
    /\ file \in {Absent, <<>>, <<0>>}
    /\ temp = Absent
    /\ lock = NoCall
    /\ updates = [c \in Callers |-> Update("idle", Absent, Absent)]

\* run was called and has not reached the provider yet
AgentInit ==
    /\ generated = 0
    /\ toolCalls = {}
    /\ phase = "thinking"
    /\ result = None

\* no file, no update call
StoreIdle ==
    /\ file = Absent /\ temp = Absent /\ lock = NoCall
    /\ updates = [c \in Callers |-> Update("idle", Absent, Absent)]

\* no run call
AgentIdle ==
    /\ generated = 0 /\ toolCalls = {} /\ phase = "idle" /\ result = None

\* the result of a call that was not made yet, and of one that raised
NotCalled == [called |-> FALSE]

Raised(e) == [raised |-> e]

\* no envelope is being converted
CodecIdle ==
    /\ envelope = NoMsg /\ wire = NotCalled /\ decoded = NotCalled

\* the parts of the program that are not running
Idle == StoreIdle /\ AgentIdle /\ CodecIdle

Call(op, who, aux, err) == [op |-> op, who |-> who, aux |-> aux, err |-> err]

Budget(sp, st, se, fa, as) == [spawn |-> sp, stop |-> st, send |-> se, fail |-> fa, ask |-> as]

\* ------------------------------------------------------------ construction
\* the empty registry and Actor.__init__ of every instance
Fields(b, r) ==
    /\ actors = [x \in Ids |-> NoActor]
    /\ role = r
    /\ system = [i \in Actors |-> FALSE]
    /\ parent_id = [i \in Actors |-> None]
    /\ children = [i \in Actors |-> {}]
    /\ state = [i \in Actors |-> "idle"]
    /\ running = [i \in Actors |-> FALSE]
    /\ mailbox = [i \in Actors |-> <<>>]
    /\ tasks = EmptyBag
    /\ asks = [k \in AskSlots |-> NoAsk]
    /\ handled = [i \in Actors |-> <<>>]
    /\ sent = <<>>
    /\ nextId = 1
    /\ budget = b
    /\ last = Call("init", None, None, "none")

\* ActorSystem.__init__ and Actor.__init__ of every instance
InitWith(b, r) == Fields(b, r) /\ Constructed /\ Idle

\* dict.get on the registry: an identity that is no key yields no actor
Lookup(reg, x) == IF x \in Ids THEN reg[x] ELSE NoActor

\* ------------------------------------------------------- ActorSystem.spawn
SpawnRegister(reg, i) == [reg EXCEPT ![ActorId(i)] = i]

\* a spawn that records the parent on the child only
SpawnAdoptNone(ch, par, i) == ch

\* the children sets after spawn: the parent found in the registry gains the identity
SpawnAdopt(ch, par, i) ==
    IF par # NoActor THEN [ch EXCEPT ![par] = @ \cup {ActorId(i)}] ELSE ch

Spawn(i, p) ==
    /\ budget.spawn > 0
    /\ LET reg == SpawnRegister(actors, i)
           par == Lookup(reg, p)
       IN /\ actors' = reg
          /\ system' = [system EXCEPT ![i] = TRUE]
          /\ parent_id' = [parent_id EXCEPT ![i] = p]
          /\ children' = SpawnAdopt(children, par, i)
    /\ tasks' = tasks (+) SetToBag({Task(i, "created", NoMsg)})
    /\ budget' = [budget EXCEPT !.spawn = @ - 1]
    /\ last' = Call("spawn", ActorId(i), p, "none")
    /\ UNCHANGED <<sent, role, state, running, mailbox, asks, handled, nextId, others>>

\* an actor that takes itself for attached whatever its system field says
AttachedAlways(i) == TRUE

\* `if self.system:` in tell, ask and spawn_child
Attached(i) == system[i]

\* -------------------------------------------------------- Actor.spawn_child
\* instance j spawns instance i as its child; without a system it raises
SpawnChild(j, i) ==
    IF Attached(j) THEN Spawn(i, ActorId(j))
    ELSE /\ budget.spawn > 0
         /\ budget' = [budget EXCEPT !.spawn = @ - 1]
         /\ last' = Call("spawn_child", ActorId(i), ActorId(j), "RuntimeError")
         /\ UNCHANGED <<actors, role, system, parent_id, children, state, running, mailbox,
                        tasks, asks, handled, sent, nextId, others>>

\* --------------------------------------------------------- asyncio.Queue
MailboxPut(q, m) == Append(q, m)

\* a queue that hands out the newest envelope first
MailboxGetLifo(q) == <<q[Len(q)], SubSeq(q, 1, Len(q) - 1)>>

\* the envelope get() returns and the queue it leaves
MailboxGet(q) == <<Head(q), Tail(q)>>

\* -------------------------------------------------------- ActorSystem.send
\* the mailboxes after send(m): the recipient's gains m, or m is dropped
SystemSend(mb, reg, m) ==
    IF Lookup(reg, m.recipient) # NoActor
    THEN [mb EXCEPT ![Lookup(reg, m.recipient)] = MailboxPut(@, m)]
    ELSE mb

\* a send that indexes the registry instead of using dict.get
SendErrorKey(reg, m) == IF Lookup(reg, m.recipient) = NoActor THEN "KeyError" ELSE "none"

\* send never raises: an absent recipient is logged
SendError(reg, m) == "none"

\* application code hands an envelope to system.send
Send(s, r) ==
    /\ budget.send > 0
    /\ LET m == ActorMessage(nextId, s, r, "p", "default", None, NoCorrelation)
       IN /\ mailbox' = SystemSend(mailbox, actors, m)
          /\ last' = Call("send", r, m, SendError(actors, m))
    /\ nextId' = nextId + 1
    /\ budget' = [budget EXCEPT !.send = @ - 1]
    /\ sent' = Append(sent, last'.aux)
    /\ UNCHANGED <<actors, role, system, parent_id, children, state, running, tasks,
                   asks, handled, others>>

\* application code sends an envelope of kind k with payload pl and reply_to rt
Post(s, r, k, pl, rt) ==
    /\ budget.send > 0
    /\ LET m == ActorMessage(nextId, s, r, pl, k, rt, NoCorrelation)
       IN /\ mailbox' = SystemSend(mailbox, actors, m)
          /\ last' = Call("send", r, m, SendError(actors, m))
    /\ nextId' = nextId + 1
    /\ budget' = [budget EXCEPT !.send = @ - 1]
    /\ sent' = Append(sent, last'.aux)
    /\ UNCHANGED <<actors, role, system, parent_id, children, state, running, tasks,
                   asks, handled, others>>

\* ------------------------------------------------------------- Actor.tell
Tell(i, r) ==
    /\ budget.send > 0
    /\ LET m == ActorMessage(nextId, ActorId(i), r, "p", "default", None, NoCorrelation)
       IN /\ mailbox' = IF Attached(i) THEN SystemSend(mailbox, actors, m) ELSE mailbox
          /\ last' = Call("tell", r, m, IF Attached(i) THEN SendError(actors, m) ELSE "none")
    /\ nextId' = nextId + 1
    /\ budget' = [budget EXCEPT !.send = @ - 1]
    /\ sent' = IF Attached(i) THEN Append(sent, last'.aux) ELSE sent
    /\ UNCHANGED <<actors, role, system, parent_id, children, state, running, tasks,
                   asks, handled, others>>

\* --------------------------------------------------- ActorSystem.broadcast
\* a broadcast that goes through the set of the identities given
BroadcastDistinct(ids) ==
    SelectSeq(<<"a", "b", "c">>, LAMBDA x : \E k \in DOMAIN ids : ids[k] = x)

\* the identities broadcast goes through, in order
BroadcastTargets(ids) == ids

\* a copy built without the timestamp argument: stamped when it is made,
\* later than the original
BroadcastCopyStamped(m, x) ==
    [id |-> m.id, sender |-> m.sender, recipient |-> x, payload |-> m.payload,
     message_type |-> m.message_type, reply_to |-> m.reply_to,
     correlation_id |-> m.correlation_id, timestamp |-> m.timestamp + 1]

\* msg_copy: a new envelope built field by field from the original, for target x
BroadcastCopy(m, x) ==
    [id |-> m.id, sender |-> m.sender, recipient |-> x, payload |-> m.payload,
     message_type |-> m.message_type, reply_to |-> m.reply_to,
     correlation_id |-> m.correlation_id, timestamp |-> m.timestamp]

RECURSIVE BroadcastFrom(_, _, _, _)
BroadcastFrom(mb, reg, m, ids) ==
    IF ids = <<>> THEN mb
    ELSE BroadcastFrom(SystemSend(mb, reg, BroadcastCopy(m, Head(ids))), reg, m, Tail(ids))

\* broadcast(m, ids); the call leaves the object m as it was given
BroadcastMessage(m, ids) ==
    /\ budget.send > 0
    /\ mailbox' = BroadcastFrom(mailbox, actors, m, BroadcastTargets(ids))
    /\ last' = Call("broadcast", ids, m, "none")
    /\ nextId' = nextId + 1
    /\ budget' = [budget EXCEPT !.send = @ - 1]
    /\ sent' = sent \o [k \in DOMAIN BroadcastTargets(ids) |->
                         BroadcastCopy(m, BroadcastTargets(ids)[k])]
    /\ UNCHANGED <<actors, role, system, parent_id, children, state, running, tasks,
                   asks, handled, others>>

Broadcast(s, ids) ==
    BroadcastMessage(ActorMessage(nextId, s, None, "p", "default", None, NoCorrelation), ids)

\* ------------------------------------ ActorSystem.stop and Actor.stop
\* The two call each other; nothing in them suspends.  st carries the fields
\* they write and err, set once the nesting reaches RecursionLimit: the
\* RecursionError then unwinds every frame, so nothing more is written.
\* order is the iteration order of list(self.children).
Orders == {o \in [1 .. Cardinality(Ids) -> Ids] : \A j, k \in DOMAIN o : j # k => o[j] # o[k]}

ChildList(kids, order) == SelectSeq(order, LAMBDA x : x \in kids)

RECURSIVE SystemStop(_, _, _, _)
RECURSIVE StopEach(_, _, _, _)

ActorStop(st, i, order, depth) ==
    LET s0 == [st EXCEPT !.running[i] = FALSE]
    IN IF system[i] THEN StopEach(s0, ChildList(st.children[i], order), order, depth)
       ELSE s0

StopEach(st, kids, order, depth) ==
    IF kids = <<>> \/ st.err THEN st
    ELSE StopEach(SystemStop(st, Head(kids), order, depth), Tail(kids), order, depth)

SystemStop(st, id, order, depth) ==
    IF st.err \/ Lookup(st.actors, id) = NoActor THEN st
    ELSE IF depth > RecursionLimit THEN [st EXCEPT !.err = TRUE]
    ELSE LET i == st.actors[id]
             s1 == ActorStop(st, i, order, depth + 1)
             p == Lookup(s1.actors, parent_id[i])
             s2 == IF p # NoActor THEN [s1 EXCEPT !.children[p] = @ \ {id}] ELSE s1
         IN IF s1.err THEN s1 ELSE [s2 EXCEPT !.actors[id] = NoActor]

\* a stop that deletes the registry entry without looking it up first
StopErrorKey(reg, id, err) ==
    IF Lookup(reg, id) = NoActor THEN "KeyError"
    ELSE IF err THEN "RecursionError" ELSE "none"

\* what stop raises: nothing for an identity get() does not find; the
\* RecursionError of a cascade that nests too deep
StopError(reg, id, err) == IF err THEN "RecursionError" ELSE "none"

Stop(id, order) ==
    /\ budget.stop > 0
    /\ LET r == SystemStop([actors |-> actors, children |-> children,
                            running |-> running, err |-> FALSE], id, order, 1)
       IN /\ actors' = r.actors
          /\ children' = r.children
          /\ running' = r.running
          /\ last' = Call("stop", id, actors[id], StopError(actors, id, r.err))
    /\ budget' = [budget EXCEPT !.stop = @ - 1]
    /\ UNCHANGED <<sent, role, system, parent_id, state, mailbox, tasks, asks, handled, nextId, others>>

\* ----------------------------------------------------- ActorSystem.stop_all
\* a shutdown that stops the actors without a parent and relies on the cascade
SnapshotRoots(reg) == {x \in Ids : reg[x] # NoActor /\ parent_id[reg[x]] = None}

\* list(self.actors.keys()): the identities registered when stop_all is called
Snapshot(reg) == {x \in Ids : reg[x] # NoActor}

\* stop_all stops the identities of the snapshot one after the other, in the
\* order keys of the registry (order); an error ends the iteration
StopAll(keys, order) ==
    /\ budget.stop > 0
    /\ LET ids == ChildList(Snapshot(actors), keys)
           r == StopEach([actors |-> actors, children |-> children,
                          running |-> running, err |-> FALSE], ids, order, 1)
       IN /\ actors' = r.actors
          /\ children' = r.children
          /\ running' = r.running
          /\ last' = Call("stop_all", ids, [actors |-> actors, children |-> children],
                          IF r.err THEN "RecursionError" ELSE "none")
    /\ budget' = [budget EXCEPT !.stop = @ - 1]
    /\ UNCHANGED <<sent, role, system, parent_id, state, mailbox, tasks, asks, handled, nextId, others>>

\* ------------------------------------------------------------ Actor._run
\* pc of a dispatch task: "created" (create_task done, not yet run),
\* "waiting" (suspended in wait_for(mailbox.get())), "handling" (inside
\* receive, awaiting), "done" (loop left: the task is finished and gone).
Move(t, u) ==
    IF u.pc = "done" THEN tasks (-) SetToBag({t})
    ELSE (tasks (-) SetToBag({t})) (+) SetToBag({u})

Live == BagToSet(tasks)

Start(t) ==
    /\ t.pc = "created"
    /\ running' = [running EXCEPT ![t.actor] = TRUE]
    /\ state' = [state EXCEPT ![t.actor] = "running"]
    /\ tasks' = Move(t, Task(t.actor, "waiting", NoMsg))
    /\ UNCHANGED <<sent, actors, role, system, parent_id, children, mailbox, asks, handled,
                   nextId, budget, last, others>>

Dequeue(t) ==
    /\ t.pc = "waiting"
    /\ mailbox[t.actor] # <<>>
    /\ LET g == MailboxGet(mailbox[t.actor])
       IN /\ mailbox' = [mailbox EXCEPT ![t.actor] = g[2]]
          /\ handled' = [handled EXCEPT ![t.actor] = Append(@, g[1])]
          /\ tasks' = Move(t, Task(t.actor, "handling", g[1]))
    /\ UNCHANGED <<sent, actors, role, system, parent_id, children, state, running, asks,
                   nextId, budget, last, others>>

\* the while test that follows a handled envelope: does the loop leave?
LoopExits(i) == ~running[i]

\* receive of an application-defined actor returns
HandlerReturn(t) ==
    /\ t.pc = "handling"
    /\ role[t.actor] = "generic"
    /\ tasks' = Move(t, Task(t.actor, IF LoopExits(t.actor) THEN "done" ELSE "waiting", NoMsg))
    /\ state' = IF LoopExits(t.actor) THEN [state EXCEPT ![t.actor] = "stopped"] ELSE state
    /\ UNCHANGED <<sent, actors, role, system, parent_id, children, running, mailbox, asks,
                   handled, nextId, budget, last, others>>

\* ---------------------------------------------------- Actor._handle_error
\* a failure reported to the sender of the failed envelope, not to the parent
ErrorMessageToSender(i, m) ==
    ActorMessage(FreshId(m), ActorId(i), m.sender, "error", "child_error", None, NoCorrelation)

\* the child_error envelope for the parent
ErrorMessage(i, m) ==
    ActorMessage(FreshId(m), ActorId(i), parent_id[i], "error", "child_error", None, NoCorrelation)

\* a dispatch loop that a handler failure ends
ErrorEndsLoop(i) == TRUE

\* after except Exception the loop goes back to its while test
AfterError(i) == LoopExits(i)

\* receive raises an Exception: _run catches it and _handle_error runs
HandlerFail(t) ==
    /\ t.pc = "handling"
    /\ role[t.actor] = "generic"
    /\ budget.fail > 0
    /\ LET i == t.actor
           notify == parent_id[i] # None /\ system[i]
       IN /\ mailbox' = IF notify THEN SystemSend(mailbox, actors, ErrorMessage(i, t.msg)) ELSE mailbox
          /\ tasks' = Move(t, Task(i, IF AfterError(i) THEN "done" ELSE "waiting", NoMsg))
          /\ state' = [state EXCEPT ![i] = IF AfterError(i) THEN "stopped" ELSE "error"]
          /\ last' = Call("failed", i, t.msg, "Exception")
    /\ budget' = [budget EXCEPT !.fail = @ - 1]
    /\ sent' = IF parent_id[t.actor] # None /\ system[t.actor]
               THEN Append(sent, ErrorMessage(t.actor, t.msg)) ELSE sent
    /\ UNCHANGED <<actors, role, system, parent_id, children, running, asks, handled, nextId, others>>

\* receive raises asyncio.TimeoutError (a wait_for or an ask of its own ran
\* out): the except clause meant for the empty mailbox takes it and the loop
\* continues; _handle_error does not run
HandlerTimeout(t) ==
    /\ t.pc = "handling"
    /\ role[t.actor] = "generic"
    /\ budget.fail > 0
    /\ tasks' = Move(t, Task(t.actor, IF LoopExits(t.actor) THEN "done" ELSE "waiting", NoMsg))
    /\ state' = IF LoopExits(t.actor) THEN [state EXCEPT ![t.actor] = "stopped"] ELSE state
    /\ last' = Call("failed", t.actor, t.msg, "TimeoutError")
    /\ budget' = [budget EXCEPT !.fail = @ - 1]
    /\ UNCHANGED <<actors, role, system, parent_id, children, running, mailbox, asks,
                   handled, sent, nextId, others>>

\* wait_for times out on an empty mailbox and the while test finds _running unset
Exit(t) ==
    /\ t.pc = "waiting"
    /\ mailbox[t.actor] = <<>>
    /\ LoopExits(t.actor)
    /\ tasks' = Move(t, Task(t.actor, "done", NoMsg))
    /\ state' = [state EXCEPT ![t.actor] = "stopped"]
    /\ UNCHANGED <<sent, actors, role, system, parent_id, children, running, mailbox, asks,
                   handled, nextId, budget, last, others>>

\* --------------------------------------------- the concrete responders
\* a SubAgent that also takes plain requests for delegated tasks
AcceptsRequest(r, m) ==
    \/ r = "command" /\ m.message_type = "execute_command" /\ m.payload = "ExecuteCommand"
    \/ r = "websearch" /\ m.message_type = "web_search" /\ m.payload = "WebSearchQuery"
    \/ r = "subagent" /\ m.message_type \in {"delegate_task", "request"}

\* a receive that checks the kind but not the payload's shape
AcceptsAnyShape(r, m) ==
    \/ r = "command" /\ m.message_type = "execute_command"
    \/ r = "websearch" /\ m.message_type = "web_search"
    \/ r = "subagent" /\ m.message_type = "delegate_task"

\* CommandActor.receive / WebSearchActor.receive / SubAgent.receive: the
\* kind and the payload shape each one handles
Accepts(r, m) ==
    \/ r = "command" /\ m.message_type = "execute_command" /\ m.payload = "ExecuteCommand"
    \/ r = "websearch" /\ m.message_type = "web_search" /\ m.payload = "WebSearchQuery"
    \/ r = "subagent" /\ m.message_type = "delegate_task"

\* what the external collaborator (and the safety agent) can make of a request
Outcomes(r) ==
    IF r = "command" THEN {"success", "rejected", "failed"} ELSE {"success", "failed"}

\* a handler that runs the collaborator on every request it accepts
ExecutesAlways(r, m, o) == Accepts(r, m)

\* Is the external collaborator (command executor, search executor, LLM
\* provider) invoked for envelope m?  o is what the safety agent and the
\* collaborator make of it; a CommandActor skips the executor on a rejection
Executes(r, m, o) == Accepts(r, m) /\ (r = "command" => o # "rejected")

\* a reply whose kind tells a failure from a result
CommandReplyByOutcome(i, m, o) ==
    ActorMessage(FreshId(m), ActorId(i), m.reply_to, o,
                 IF o = "success" THEN "response" ELSE "error", None, m.correlation_id)

\* CommandActor._handle_execute_command: the reply envelope
CommandReply(i, m, o) ==
    ActorMessage(FreshId(m), ActorId(i), m.reply_to, o, "response", None, m.correlation_id)

\* WebSearchActor._handle_web_search: the reply envelope
WebSearchReply(i, m, o) ==
    ActorMessage(FreshId(m), ActorId(i), m.reply_to, o, "response", None, m.correlation_id)

\* a reply that passes on the request's correlation_id
SubAgentReplyToken(i, m, o) ==
    ActorMessage(FreshId(m), ActorId(i), m.reply_to, o,
                 IF o = "success" THEN "response" ELSE "error", None, m.correlation_id)

\* SubAgent._handle_delegated_task: the result or the error envelope
SubAgentReply(i, m, o) ==
    ActorMessage(FreshId(m), ActorId(i), m.reply_to, o,
                 IF o = "success" THEN "response" ELSE "error", None, m.id)

Reply(i, m, o) ==
    IF role[i] = "command" THEN CommandReply(i, m, o)
    ELSE IF role[i] = "websearch" THEN WebSearchReply(i, m, o)
    ELSE SubAgentReply(i, m, o)

\* ---------------------------------------------------------------- Actor.ask
\* A reply is correlated to an ask call when it answers the call's request.
Correlated(a, m) ==
    /\ m.message_type = "response"
    /\ m.correlation_id = a.req.id
    /\ m.recipient = a.req.reply_to

\* a future completed by any response that reaches the caller
ResolvesAnyResponse(a, m) == m.message_type = "response" /\ m.recipient = a.req.reply_to

\* Does sending m complete the future of the waiting call a?  reply_handler
\* is a local closure that ask hands to nobody, and no send path looks at
\* pending calls: nothing ever completes the future.
Resolves(a, m) == FALSE

\* the ask calls after the envelope m went through send
Observe(as, reg, m) ==
    [k \in AskSlots |->
        IF as[k].status # "waiting" THEN as[k]
        ELSE IF Resolves(as[k], m)
        THEN [as[k] EXCEPT !.status = "returned", !.result = m]
        ELSE IF Correlated(as[k], m) /\ Lookup(reg, m.recipient) # NoActor
        THEN [as[k] EXCEPT !.matched = TRUE]
        ELSE as[k]]

\* receive of a CommandActor, WebSearchActor or SubAgent finishes: the
\* collaborator came back with outcome o, the reply (if any) is sent; what
\* the send of the reply raises would leave receive and reach _handle_error
Respond(t, o) ==
    /\ t.pc = "handling"
    /\ role[t.actor] # "generic"
    /\ o \in Outcomes(role[t.actor])
    /\ LET i == t.actor
           m == t.msg
           replies == Accepts(role[i], m) /\ m.reply_to # None /\ system[i]
           rep == Reply(i, m, o)
           err == IF replies THEN SendError(actors, rep) ELSE "none"
       IN /\ mailbox' = IF replies THEN SystemSend(mailbox, actors, rep) ELSE mailbox
          /\ asks' = IF replies THEN Observe(asks, actors, rep) ELSE asks
          /\ last' = Call(IF replies THEN "reply" ELSE "noreply", i,
                          <<m, IF replies THEN rep ELSE NoMsg, Executes(role[i], m, o),
                            IF Accepts(role[i], m) THEN o ELSE "none">>, err)
          /\ tasks' = Move(t, Task(i, IF LoopExits(i) THEN "done" ELSE "waiting", NoMsg))
          /\ state' = IF LoopExits(i) THEN [state EXCEPT ![i] = "stopped"]
                       ELSE IF err # "none" THEN [state EXCEPT ![i] = "error"] ELSE state
    /\ sent' = IF Accepts(role[t.actor], t.msg) /\ t.msg.reply_to # None /\ system[t.actor]
               THEN Append(sent, Reply(t.actor, t.msg, o)) ELSE sent
    /\ UNCHANGED <<actors, role, system, parent_id, children, running, handled, nextId, budget, others>>

\* the request kinds and payloads of ActorAgent.run.handle_tool_call
RequestKind(r) ==
    IF r = "command" THEN "execute_command"
    ELSE IF r = "websearch" THEN "web_search" ELSE "delegate_task"

RequestPayload(r) ==
    IF r = "command" THEN "ExecuteCommand"
    ELSE IF r = "websearch" THEN "WebSearchQuery" ELSE "task"

\* an ask that awaits the future with no timeout
AskNoDeadline(a) == "waiting"

\* what wait_for(future, timeout) raises when the timeout elapses
AskDeadline(a) == "timeout"

\* ask(message, timeout) is called on instance i by the holder of identity w;
\* the request, built for a responder of class q, goes to r and the reply is
\* to come back to w; c: the caller also sets correlation_id to the request's id
Ask(k, i, w, r, q, c, T) ==
    /\ budget.ask > 0
    /\ asks[k].status = "free"
    /\ \A j \in AskSlots : j < k => asks[j].status # "free"
    /\ LET req == ActorMessage(nextId, w, r, RequestPayload(q), RequestKind(q), w,
                               IF c THEN nextId ELSE NoCorrelation)
       IN IF Attached(i)
          THEN /\ mailbox' = SystemSend(mailbox, actors, req)
               /\ asks' = [asks EXCEPT ![k] = AskCall(i, req, T, "waiting", NoMsg, FALSE)]
               /\ last' = Call("ask", i, req, "none")
          ELSE /\ mailbox' = mailbox
               /\ asks' = [asks EXCEPT ![k] = AskCall(i, req, 0, "failed", NoMsg, FALSE)]
               /\ last' = Call("ask", i, req, "RuntimeError")
    /\ nextId' = nextId + 1
    /\ budget' = [budget EXCEPT !.ask = @ - 1]
    /\ sent' = IF Attached(i) THEN Append(sent, last'.aux) ELSE sent
    /\ UNCHANGED <<actors, role, system, parent_id, children, state, running, tasks, handled, others>>

\* one unit of time passes for every waiting call
Tick ==
    /\ \E k \in AskSlots : asks[k].status = "waiting"
    /\ \A k \in AskSlots : asks[k].status = "waiting" => asks[k].left > 0
    /\ asks' = [k \in AskSlots |->
                  IF asks[k].status = "waiting" THEN [asks[k] EXCEPT !.left = @ - 1]
                  ELSE asks[k]]
    /\ UNCHANGED <<actors, role, system, parent_id, children, state, running, mailbox,
                   tasks, handled, sent, nextId, budget, last, others>>

\* wait_for gives up: asyncio.TimeoutError is logged and re-raised
AskTimeout(k) ==
    /\ asks[k].status = "waiting"
    /\ asks[k].left = 0
    /\ asks' = [asks EXCEPT ![k].status = AskDeadline(asks[k])]
    /\ last' = Call("ask_timeout", asks[k].actor, asks[k].req, "TimeoutError")
    /\ UNCHANGED <<sent, actors, role, system, parent_id, children, state, running, mailbox,
                   tasks, handled, nextId, budget, others>>

Generic == [i \in Actors |-> "generic"]

\* ------------------------------------------------------------ JSONStore
core == <<actors, role, system, parent_id, children, state, running, mailbox, tasks,
          asks, handled, sent, nextId, budget, last>>

\* the updater of call c: it adds the call's own entry to the data it is given
Updater(c, data) == Append(data, c)

\* `default or {}` in update
Default == <<>>

\* JSONStore.write: the data it serialises is the one update computed from
\* what read returned
WriteData(c, now) == updates[c].updated

At(c, pc) == updates[c].pc = pc

Goto(c, pc) == [updates EXCEPT ![c].pc = pc]

\* update calls read; read finds no file and returns the default without
\* taking the lock; update applies the updater and calls write
ReadMissing(c) ==
    /\ At(c, "idle")
    /\ file = Absent
    /\ updates' = [updates EXCEPT ![c] = Update("write_wait", Default, Updater(c, Default))]
    /\ UNCHANGED <<file, temp, lock, core, singleton, agent, codec>>

\* update calls read; read finds the file and goes for the lock
ReadExists(c) ==
    /\ At(c, "idle")
    /\ file # Absent
    /\ updates' = Goto(c, "read_wait")
    /\ UNCHANGED <<file, temp, lock, core, singleton, agent, codec>>

\* FileLock.lock inside read: the lock is acquired (taken as exclusive)
ReadAcquire(c) ==
    /\ At(c, "read_wait")
    /\ lock = NoCall
    /\ lock' = c
    /\ updates' = Goto(c, "read_held")
    /\ UNCHANGED <<file, temp, core, singleton, agent, codec>>

\* read: the file is opened, read and parsed
ReadFile(c) ==
    /\ At(c, "read_held")
    /\ updates' = [updates EXCEPT ![c] = Update("read_done", file, Absent)]
    /\ UNCHANGED <<file, temp, lock, core, singleton, agent, codec>>

\* read leaves the lock and returns; update applies the updater and calls write
ReadRelease(c) ==
    /\ At(c, "read_done")
    /\ lock' = NoCall
    /\ updates' = [updates EXCEPT ![c] =
                      Update("write_wait", @.current, Updater(c, @.current))]
    /\ UNCHANGED <<file, temp, core, singleton, agent, codec>>

\* FileLock.lock inside write: the lock is acquired
WriteAcquire(c) ==
    /\ At(c, "write_wait")
    /\ lock = NoCall
    /\ lock' = c
    /\ updates' = Goto(c, "write_held")
    /\ UNCHANGED <<file, temp, core, singleton, agent, codec>>

\* write: the data is serialised into the temporary file
WriteTemp(c) ==
    /\ At(c, "write_held")
    /\ temp' = WriteData(c, file)
    /\ updates' = Goto(c, "temp_written")
    /\ UNCHANGED <<file, lock, core, singleton, agent, codec>>

\* write: the temporary file replaces the file
WriteReplace(c) ==
    /\ At(c, "temp_written")
    /\ file' = temp
    /\ temp' = Absent
    /\ updates' = Goto(c, "replaced")
    /\ UNCHANGED <<lock, core, singleton, agent, codec>>

\* write leaves the lock; update returns the data it wrote
WriteRelease(c) ==
    /\ At(c, "replaced")
    /\ lock' = NoCall
    /\ updates' = Goto(c, "done")
    /\ UNCHANGED <<file, temp, core, singleton, agent, codec>>

\* ------------------------------------------------------------ ActorAgent.run
\* the agent is the instance "a"; the actors it makes for its tools
TheAgent == 1

KnownTools == {"run_command", "web_search"}

Tools == KnownTools \cup {"unknown"}

\* the tool calls of one response: none, or some with at most one known tool
Responses == {tc \in SUBSET Tools : Cardinality(tc \cap KnownTools) <= 1}

\* CommandActor(...) / WebSearchActor(...) made by handle_tool_call
ToolActor(t) == IF t = "run_command" THEN 2 ELSE 3

ToolRoles == [Generic EXCEPT ![2] = "command", ![3] = "websearch"]

\* for i in range(5)
RoundsLeft(n) == n < MaxRounds

\* response = await self.provider.generate(...); without tool calls run
\* returns the content
Generate(tc) ==
    /\ phase = "thinking"
    /\ generated' = generated + 1
    /\ toolCalls' = tc
    /\ phase' = IF tc = {} THEN "returned" ELSE "tools"
    /\ result' = IF tc = {} THEN "content" ELSE result
    /\ UNCHANGED <<core, singleton, store, codec>>

\* handle_tool_call for a name that is no tool: an error text is the result
UnknownTool(t) ==
    /\ phase = "tools"
    /\ t \in toolCalls \ KnownTools
    /\ toolCalls' = toolCalls \ {t}
    /\ UNCHANGED <<generated, phase, result, core, singleton, store, codec>>

\* handle_tool_call: await self.spawn_child(actor)
SpawnTool(t) ==
    /\ phase = "tools"
    /\ t \in toolCalls \cap KnownTools
    /\ SpawnChild(TheAgent, ToolActor(t))

\* handle_tool_call: await actor.ask(ActorMessage(...)) on the actor just spawned
AskTool(t) ==
    /\ phase = "tools"
    /\ t \in toolCalls \cap KnownTools
    /\ system[ToolActor(t)]
    /\ Ask(1, ToolActor(t), ActorId(TheAgent), ActorId(ToolActor(t)), role[ToolActor(t)],
           FALSE, MaxTimeout)

\* handle_tool_call ends: spawn_child or ask has raised, gather passes the
\* exception on and run raises it; or ask has returned the actor's reply,
\* whose text is the tool's result
ToolEnds(t) ==
    /\ phase = "tools"
    /\ t \in toolCalls \cap KnownTools
    /\ \/ last.op = "spawn_child" /\ last.err = "RuntimeError"
       \/ asks[1].actor = ToolActor(t) /\ asks[1].status \in {"timeout", "returned"}
    /\ LET raised == IF last.op = "spawn_child" THEN "RuntimeError"
                     ELSE IF asks[1].status = "timeout" THEN "TimeoutError" ELSE None
       IN /\ phase' = IF raised = None THEN phase ELSE "raised"
          /\ result' = IF raised = None THEN result ELSE raised
          /\ toolCalls' = IF raised = None THEN toolCalls \ {t} ELSE toolCalls
    /\ UNCHANGED <<generated, core, singleton, store, codec>>

\* gather has every result: the next round, or the fallback text after the last one
RoundEnds ==
    /\ phase = "tools"
    /\ toolCalls = {}
    /\ phase' = IF RoundsLeft(generated) THEN "thinking" ELSE "returned"
    /\ result' = IF RoundsLeft(generated) THEN result ELSE "fallback"
    /\ UNCHANGED <<generated, toolCalls, core, singleton, store, codec>>

\* ------------------------------------------------- to_dict and from_dict
\* the values of the members of the enum MessageType; an envelope whose
\* message_type is one of them carries the member
MessageTypes == {"default", "request", "response", "error", "spawn_subagent",
                 "execute_command", "web_search", "delegate_task"}

\* datetime.isoformat and datetime.fromisoformat
Isoformat(t) == <<"iso", t>>

FromIsoformat(x) == x[2]

\* self.message_type.value: the value of the member; a str has no such attribute
Value(k) == IF k \in MessageTypes THEN [value |-> k] ELSE Raised("AttributeError")

\* MessageType(v): the member with that value
Member(v) == IF v.value \in MessageTypes THEN [member |-> v.value] ELSE Raised("ValueError")

\* ActorMessage.to_dict
ToDict(m) ==
    IF Value(m.message_type) = Raised("AttributeError") THEN Raised("AttributeError")
    ELSE [id |-> m.id, sender |-> m.sender, recipient |-> m.recipient,
          payload |-> m.payload, reply_to |-> m.reply_to,
          correlation_id |-> m.correlation_id, timestamp |-> Isoformat(m.timestamp),
          message_type |-> Value(m.message_type)]

\* ActorMessage.from_dict
FromDict(d) ==
    IF Member(d.message_type) = Raised("ValueError") THEN Raised("ValueError")
    ELSE [id |-> d.id, sender |-> d.sender, recipient |-> d.recipient,
          payload |-> d.payload, message_type |-> Member(d.message_type).member,
          reply_to |-> d.reply_to, correlation_id |-> d.correlation_id,
          timestamp |-> FromIsoformat(d.timestamp)]

\* the envelopes the application and the runtime build: every kind of the
\* enum, and the child_error envelope of _handle_error, whose message_type is
\* the str "child_error"
Envelopes ==
    {[ActorMessage(id, s, "b", pl, k, rt, c) EXCEPT !.timestamp = ts] :
        id \in 1 .. CodecIds, s \in {None, "a"}, pl \in {"ExecuteCommand", "task", None},
        k \in {"default", "response", "execute_command"}, rt \in {None, "a"},
        c \in {NoCorrelation, 1}, ts \in 0 .. CodecClock}
    \cup {[ActorMessage(0 - id, "b", "a", "error", "child_error", None, NoCorrelation)
             EXCEPT !.timestamp = ts] : id \in 1 .. CodecIds, ts \in 0 .. CodecClock}

\* wire = m.to_dict()
Encode ==
    /\ wire = NotCalled
    /\ wire' = ToDict(envelope)
    /\ UNCHANGED <<envelope, decoded, core, singleton, store, agent>>

\* decoded = ActorMessage.from_dict(wire)
Decode ==
    /\ wire \notin {NotCalled, Raised("AttributeError")}
    /\ decoded = NotCalled
    /\ decoded' = FromDict(wire)
    /\ UNCHANGED <<envelope, wire, core, singleton, store, agent>>

\* ------------------------------------------------------------ the singleton
\* ActorSystem.__new__: the object a construction returns
New(inst, fresh) == IF inst = NoSystem THEN fresh ELSE inst

\* an __init__ without the guard against a second initialisation
InitAlways(done) == TRUE

\* ActorSystem.__init__: whether the body after the guard runs
InitRuns(done) == ~done

\* ActorSystem(): __new__, then __init__ on the object __new__ returned
Construct ==
    /\ Len(handles) < SoleHandles
    /\ LET self == New(instance, Len(handles) + 1)
       IN /\ instance' = IF instance = NoSystem THEN self ELSE instance
          /\ handles' = Append(handles, self)
          /\ actors' = IF InitRuns(initialized) THEN [x \in Ids |-> NoActor] ELSE actors
          /\ owner' = IF InitRuns(initialized) THEN self ELSE owner
          /\ initialized' = (initialized \/ InitRuns(initialized))
          /\ last' = Call("construct", self, Len(handles) + 1, "none")
    /\ UNCHANGED <<role, system, parent_id, children, state, running, mailbox, tasks,
                   asks, handled, sent, nextId, budget, store, agent, codec>>

\* the h-th handle refers to the object that carries the registry
Via(h) == h \in DOMAIN handles /\ handles[h] = owner

\* ActorSystem.get_actor through the h-th handle
GetActor(h, x) == IF Via(h) THEN Lookup(actors, x) ELSE "AttributeError"

\* ---------------------------------------------------------- specifications
\* the iteration order of children sets where no actor has two children
AnyOrder == <<"a", "b", "c">>

\* RegSpec: the registry and the supervision tree (spawn, stop, the
\* dispatch tasks starting and leaving), no envelopes.
RegInit == InitWith(Budget(RegSpawns, RegStops, 0, 0, 0), Generic)

\* the parent arguments given to spawn: none, or an identity that may be registered
Parents == {None, "a", "b"}

RegNext ==
    \/ \E i \in Actors, p \in Parents : Spawn(i, p)
    \/ \E id \in Ids, o \in Orders : Stop(id, o)
    \/ \E t \in Live : Start(t)
    \/ \E t \in Live : Exit(t)

RegSpec == RegInit /\ [][RegNext]_vars

\* KinSpec: parents and children: spawn with a parent argument, spawn_child,
\* stop of a parent or a child.
KinInit == InitWith(Budget(KinSpawns, KinStops, 0, 0, 0), Generic)

KinNext ==
    \/ \E i \in {1, 2, 3}, p \in {None, "a", "b"} : Spawn(i, p)
    \/ \E j \in {1, 2}, i \in {2, 3} : SpawnChild(j, i)
    \/ \E id \in {"a", "b"} : Stop(id, AnyOrder)
    \/ \E t \in Live : Start(t)
    \/ \E t \in Live : Exit(t)

KinSpec == KinInit /\ [][KinNext]_vars

\* HaltSpec: shutdown: actors spawned under registered, unregistered and
\* cyclic parents, then stop_all.
HaltInit == InitWith(Budget(HaltSpawns, HaltStops, 0, 0, 0), Generic)

HaltNext ==
    \/ \E i \in {1, 2, 3}, p \in {None, "a", "b"} : Spawn(i, p)
    \/ \E keys \in Orders : StopAll(keys, AnyOrder)
    \/ \E t \in Live : Start(t)
    \/ \E t \in Live : Exit(t)

HaltSpec == HaltInit /\ [][HaltNext]_vars

\* MsgSpec: envelopes from the identities "b" and "c" to the actor "a",
\* whose handler may raise; "a" may be spawned again (a second dispatch task)
\* and may be its own parent.
MsgInit == InitWith(Budget(MsgSpawns, 0, MsgSends, MsgFails, 0), Generic)

MsgNext ==
    \/ \E p \in {None, "a"} : Spawn(1, p)
    \/ \E s \in {"b", "c"} : Send(s, "a")
    \/ \E t \in Live : Start(t)
    \/ \E t \in Live : Dequeue(t)
    \/ \E t \in Live : HandlerReturn(t)
    \/ \E t \in Live : HandlerFail(t)

MsgSpec == MsgInit /\ [][MsgNext]_vars

\* FailSpec: the actor "a", its own parent or an orphan, whose handler may
\* raise, receives envelopes and may be stopped.
FailInit == InitWith(Budget(FailSpawns, FailStops, FailSends, FailFails, 0), Generic)

FailNext ==
    \/ \E p \in {None, "a"} : Spawn(1, p)
    \/ Stop("a", AnyOrder)
    \/ Send("b", "a")
    \/ \E t \in Live : Start(t)
    \/ \E t \in Live : Dequeue(t)
    \/ \E t \in Live : HandlerReturn(t)
    \/ \E t \in Live : HandlerFail(t)
    \/ \E t \in Live : HandlerTimeout(t)
    \/ \E t \in Live : Exit(t)

FailSpec == FailInit /\ [][FailNext]_vars

\* the event loop runs every task that is ready, and a handler comes back
FailFair ==
    /\ WF_vars(\E t \in Live : Start(t))
    /\ WF_vars(\E t \in Live : Dequeue(t))
    /\ WF_vars(\E t \in Live : HandlerReturn(t) \/ HandlerFail(t))

FairFailSpec == FailSpec /\ FailFair

\* the same, and wait_for's one second timeout fires on an empty mailbox
LoopFair ==
    /\ FailFair
    /\ WF_vars(\E t \in Live : Exit(t))

FairLoopSpec == FailSpec /\ LoopFair

\* WardSpec: the actor "b", a child of "a" or an orphan, fails on envelopes
\* of a third actor "c"; the parent handles the notifications.
WardInit == InitWith(Budget(WardSpawns, 0, WardSends, WardFails, 0), Generic)

WardNext ==
    \/ \E i \in {1, 2, 3}, p \in {None, "a"} : Spawn(i, p)
    \/ Send("c", "b")
    \/ \E t \in Live : Start(t)
    \/ \E t \in Live : Dequeue(t)
    \/ \E t \in Live : HandlerReturn(t)
    \/ \E t \in Live : HandlerFail(t)
    \/ \E t \in Live : HandlerTimeout(t)

WardSpec == WardInit /\ [][WardNext]_vars

\* SendSpec: send and tell to registered, stopped and never registered identities.
SendInit == InitWith(Budget(SendSpawns, SendStops, SendCalls, 0, 0), Generic)

SendNext ==
    \/ \E i \in {1, 2} : Spawn(i, None)
    \/ \E id \in {"a", "b"} : Stop(id, AnyOrder)
    \/ \E r \in {"a", "c"} : Send(None, r)
    \/ \E i \in {1, 2}, r \in {"a", "c"} : Tell(i, r)
    \/ \E t \in Live : Start(t)
    \/ \E t \in Live : Dequeue(t)
    \/ \E t \in Live : HandlerReturn(t)
    \/ \E t \in Live : Exit(t)

SendSpec == SendInit /\ [][SendNext]_vars

\* CastSpec: broadcast to lists of the identities "a" and "b", each of them
\* registered or not at the time of the call.
CastInit == InitWith(Budget(CastSpawns, 0, CastCalls, 0, 0), Generic)

IdLists == UNION {[1 .. n -> {"a", "b"}] : n \in 0 .. MaxBroadcast}

CastNext ==
    \/ \E i \in {1, 2} : Spawn(i, None)
    \/ \E ids \in IdLists : Broadcast(None, ids)
    \/ \E t \in Live : Start(t)
    \/ \E t \in Live : Dequeue(t)
    \/ \E t \in Live : HandlerReturn(t)

CastSpec == CastInit /\ [][CastNext]_vars

\* CopySpec: broadcast of envelopes of either kind, with and without a
\* sender, with and without reply_to and correlation_id, to actors that are
\* registered or not; the mailboxes are looked at, not emptied.
CopyInit == InitWith(Budget(CopySpawns, 0, CopyCalls, 0, 0), Generic)

CopyLists == UNION {[1 .. n -> {"a", "b"}] : n \in 0 .. CopyLen}

CopyNext ==
    \/ \E i \in {1, 2} : Spawn(i, None)
    \/ \E s \in {None, "c"}, k \in {"default", "request"}, rt \in {None, "c"},
          ids \in CopyLists :
          BroadcastMessage(ActorMessage(nextId, s, None, "p", k, rt,
                                        IF rt = None THEN NoCorrelation ELSE 1), ids)

CopySpec == CopyInit /\ [][CopyNext]_vars

\* the application constructs ActorSystem again and again, and spawns and
\* stops through any of the handles it got
SoleInit == Fields(Budget(SoleSpawns, SoleStops, 0, 0, 0), Generic) /\ Unconstructed /\ Idle

SoleNext ==
    \/ Construct
    \/ \E h \in 1 .. SoleHandles, i \in {1, 2} : Via(h) /\ Spawn(i, None)
    \/ \E h \in 1 .. SoleHandles, id \in {"a", "b"} : Via(h) /\ Stop(id, AnyOrder)
    \/ \E t \in Live : Start(t)

SoleSpec == SoleInit /\ [][SoleNext]_vars

\* actors that were never spawned call tell, ask and spawn_child, next to
\* one that may have been spawned
LoneInit == InitWith(Budget(LoneSpawns, 0, LoneSends, 0, LoneAsks), Generic)

LoneNext ==
    \/ Spawn(1, None)
    \/ \E j \in {1, 2} : SpawnChild(j, 3)
    \/ \E i \in {1, 2}, r \in {"a", "c"} : Tell(i, r)
    \/ \E k \in AskSlots, i \in {1, 2} : Ask(k, i, ActorId(i), "a", "command", FALSE, MaxTimeout)
    \/ \E t \in Live : Start(t)
    \/ \E t \in Live : Dequeue(t)
    \/ \E t \in Live : HandlerReturn(t)

LoneSpec == LoneInit /\ [][LoneNext]_vars

\* the update calls of asyncio.gather, interleaved at their awaits
StoreStart ==
    Fields(Budget(0, 0, 0, 0, 0), Generic) /\ Constructed /\ StoreInit /\ AgentIdle /\ CodecIdle

StoreNext ==
    \/ \E c \in Callers : ReadMissing(c)
    \/ \E c \in Callers : ReadExists(c)
    \/ \E c \in Callers : ReadAcquire(c)
    \/ \E c \in Callers : ReadFile(c)
    \/ \E c \in Callers : ReadRelease(c)
    \/ \E c \in Callers : WriteAcquire(c)
    \/ \E c \in Callers : WriteTemp(c)
    \/ \E c \in Callers : WriteReplace(c)
    \/ \E c \in Callers : WriteRelease(c)

StoreSpec == StoreStart /\ [][StoreNext]_vars

\* run on an agent that was spawned, and on one that was only constructed
AgentStart ==
    /\ Fields(Budget(AgentSpawns, 0, 0, 0, AgentAsks), ToolRoles) /\ Constructed
    /\ StoreIdle /\ AgentInit /\ CodecIdle

AgentSpawned ==
    /\ actors = [x \in Ids |-> IF x = "a" THEN TheAgent ELSE NoActor]
    /\ role = ToolRoles
    /\ system = [i \in Actors |-> i = TheAgent]
    /\ parent_id = [i \in Actors |-> None]
    /\ children = [i \in Actors |-> {}]
    /\ state = [i \in Actors |-> "idle"]
    /\ running = [i \in Actors |-> FALSE]
    /\ mailbox = [i \in Actors |-> <<>>]
    /\ tasks = SetToBag({Task(TheAgent, "created", NoMsg)})
    /\ asks = [k \in AskSlots |-> NoAsk]
    /\ handled = [i \in Actors |-> <<>>]
    /\ sent = <<>>
    /\ nextId = 1
    /\ budget = Budget(AgentSpawns, 0, 0, 0, AgentAsks)
    /\ last = Call("spawn", "a", None, "none")
    /\ Constructed /\ StoreIdle /\ AgentInit /\ CodecIdle

AgentNext ==
    \/ \E tc \in Responses : Generate(tc)
    \/ \E t \in Tools : UnknownTool(t)
    \/ \E t \in Tools : SpawnTool(t)
    \/ \E t \in Tools : AskTool(t)
    \/ \E t \in Tools : ToolEnds(t)
    \/ RoundEnds
    \/ Tick
    \/ \E k \in AskSlots : AskTimeout(k)
    \/ \E t \in Live : Start(t)
    \/ \E t \in Live : Dequeue(t)
    \/ \E t \in Live : HandlerReturn(t)
    \/ \E t \in Live, o \in {"success", "rejected", "failed"} : Respond(t, o)

AgentBegin == AgentStart \/ AgentSpawned

AgentSpec == AgentBegin /\ [][AgentNext]_vars

\* an envelope is converted to a dict and back
CodecInit ==
    /\ Fields(Budget(0, 0, 0, 0, 0), Generic) /\ Constructed /\ StoreIdle /\ AgentIdle
    /\ envelope \in Envelopes
    /\ wire = NotCalled
    /\ decoded = NotCalled

CodecNext == Encode \/ Decode

CodecSpec == CodecInit /\ [][CodecNext]_vars

\* AskSpec: the caller "a" has spawned its child "b", a responder (a
\* CommandActor, a WebSearchActor or a SubAgent); the caller asks the way ActorAgent.run does, through the responder's own ask.
Responders == {"command", "websearch", "subagent"}

\* the state after spawn(a) and spawn(b, parent_id = "a"), b of class q
Spawned(b, q) ==
    /\ actors = [x \in Ids |-> IF x = "a" THEN 1 ELSE IF x = "b" THEN 2 ELSE NoActor]
    /\ role = [Generic EXCEPT ![2] = q]
    /\ system = [i \in Actors |-> i \in {1, 2}]
    /\ parent_id = [i \in Actors |-> IF i = 2 THEN "a" ELSE None]
    /\ children = [i \in Actors |-> IF i = 1 THEN {"b"} ELSE {}]
    /\ state = [i \in Actors |-> "idle"]
    /\ running = [i \in Actors |-> FALSE]
    /\ mailbox = [i \in Actors |-> <<>>]
    /\ tasks = SetToBag({Task(1, "created", NoMsg), Task(2, "created", NoMsg)})
    /\ asks = [k \in AskSlots |-> NoAsk]
    /\ handled = [i \in Actors |-> <<>>]
    /\ sent = <<>>
    /\ nextId = 1
    /\ budget = b
    /\ last = Call("spawn", "b", "a", "none")
    /\ Constructed /\ Idle

AskInit == \E q \in Responders : Spawned(Budget(0, 0, 0, 0, AskCalls), q)

AskNext ==
    \/ \E k \in AskSlots, c \in BOOLEAN : Ask(k, 2, "a", "b", role[2], c, MaxTimeout)
    \/ Tick
    \/ \E k \in AskSlots : AskTimeout(k)
    \/ \E t \in Live : Start(t)
    \/ \E t \in Live : Dequeue(t)
    \/ \E t \in Live : HandlerReturn(t)
    \/ \E t \in Live, o \in {"success", "rejected", "failed"} : Respond(t, o)

AskSpec == AskInit /\ [][AskNext]_vars

\* DutySpec: the responder "b" is sent envelopes of every kind, with a
\* payload of the shape its kind asks for or another, with and without reply_to.
Kinds == {"request", "execute_command", "web_search", "delegate_task"}

Payloads == {"ExecuteCommand", "WebSearchQuery", "task"}

DutyInit == \E q \in Responders : Spawned(Budget(0, 0, DutySends, 0, 0), q)

DutyNext ==
    \/ \E k \in Kinds, pl \in Payloads, rt \in {None, "a"} : Post("a", "b", k, pl, rt)
    \/ \E t \in Live : Start(t)
    \/ \E t \in Live : Dequeue(t)
    \/ \E t \in Live : HandlerReturn(t)
    \/ \E t \in Live, o \in {"success", "rejected", "failed"} : Respond(t, o)

DutySpec == DutyInit /\ [][DutyNext]_vars

\* WaitSpec: the same actors, the collaborator succeeds; requests also go to the identity "c", which is
\* never registered.
WaitInit == \E q \in Responders : Spawned(Budget(0, 0, 0, 0, WaitCalls), q)

WaitNext ==
    \/ \E k \in AskSlots, r \in {"b", "c"}, c \in BOOLEAN :
          Ask(k, 2, "a", r, role[2], c, WaitTimeout)
    \/ Tick
    \/ \E k \in AskSlots : AskTimeout(k)
    \/ \E t \in Live : Start(t)
    \/ \E t \in Live : Dequeue(t)
    \/ \E t \in Live : HandlerReturn(t)
    \/ \E t \in Live : Respond(t, "success")

WaitSpec == WaitInit /\ [][WaitNext]_vars

\* the event loop's timer fires: time passes and a due timeout is raised
WaitFair ==
    /\ WF_vars(Tick)
    /\ \A k \in AskSlots : WF_vars(AskTimeout(k))

FairWaitSpec == WaitSpec /\ WaitFair

\* a search that runs DDGS on the event loop's own thread
HoldsLoopSearch(r) == r = "websearch"

\* Does a handler of class r keep the event loop's thread while it waits for
\* its collaborator?  No: the command runs in an asyncio subprocess, the
\* search in asyncio.to_thread, the provider call on AsyncOpenAI.
HoldsLoop(r) == FALSE

\* the event loop can run another task or call
LoopFree == \A u \in Live : u.pc = "handling" => ~HoldsLoop(role[u.actor])

\* StallSpec: the responder "b" awaits its collaborator for as long as it
\* likes (perhaps forever) while "a" is sent envelopes and "c" is spawned
\* and stopped.
StallInit == \E q \in Responders : Spawned(Budget(StallSpawns, StallStops, StallSends, 0, 0), q)

StallNext ==
    \/ LoopFree /\ Spawn(3, None)
    \/ LoopFree /\ Stop("c", AnyOrder)
    \/ LoopFree /\ Send("c", "a")
    \/ LoopFree /\ Post("a", "b", RequestKind(role[2]), RequestPayload(role[2]), None)
    \/ \E t \in Live : LoopFree /\ Start(t)
    \/ \E t \in Live : LoopFree /\ Dequeue(t)
    \/ \E t \in Live : LoopFree /\ HandlerReturn(t)
    \/ \E t \in Live, o \in {"success", "failed"} : Respond(t, o)
    \/ \E t \in Live : LoopFree /\ Exit(t)

StallSpec == StallInit /\ [][StallNext]_vars

\* the event loop runs every task that is ready and an application-defined
\* handler comes back; nothing makes a collaborator answer
StallFair ==
    /\ WF_vars(\E t \in Live : LoopFree /\ Start(t))
    /\ WF_vars(\E t \in Live : LoopFree /\ Dequeue(t))
    /\ WF_vars(\E t \in Live : LoopFree /\ HandlerReturn(t))

FairStallSpec == StallSpec /\ StallFair

\* DropSpec: the responder "b" works on requests of its parent "a" and of the
\* actor "c"; either requester may be stopped before the reply is sent
\* (stopping "a" stops its child "b" as well).
DropInit == \E q \in Responders : Spawned(Budget(DropSpawns, DropStops, DropSends, 0, 0), q)

DropNext ==
    \/ Spawn(3, None)
    \/ \E id \in {"a", "c"} : Stop(id, AnyOrder)
    \/ \E w \in {"a", "c"} : Post(w, "b", RequestKind(role[2]), RequestPayload(role[2]), w)
    \/ \E t \in Live : Start(t)
    \/ \E t \in Live : Dequeue(t)
    \/ \E t \in Live : HandlerReturn(t)
    \/ \E t \in Live, o \in {"success", "rejected", "failed"} : Respond(t, o)
    \/ \E t \in Live : Exit(t)

DropSpec == DropInit /\ [][DropNext]_vars

\* ------------------------------------------------------------------ claims
\* C1 (per-sender ordering): the envelopes one sender sent to an actor are
\* passed to the actor's handler in the order the sender handed them to send.
C1_PerSenderOrder ==
    \A i \in Actors : \A p, q \in DOMAIN handled[i] :
        (p < q /\ handled[i][p].sender = handled[i][q].sender)
        => \E j, k \in DOMAIN sent :
              j <= k /\ sent[j] = handled[i][p] /\ sent[k] = handled[i][q]

\* two envelopes of "b" were handled with one of "c" between them
C1_Witness ==
    \E p, q, r \in DOMAIN handled[1] :
        /\ p < q /\ q < r
        /\ handled[1][p].sender = "b" /\ handled[1][q].sender = "c"
        /\ handled[1][r].sender = "b"

\* C2 (spawn of a registered identity): spawn fails with DuplicateIdentity
\* and leaves the registry, the parents and the children sets as they were.
C2_DuplicateIdentity ==
    [][(budget'.spawn # budget.spawn /\ Lookup(actors, last'.who) # NoActor)
       => (/\ last'.err = "DuplicateIdentity"
           /\ actors' = actors /\ parent_id' = parent_id /\ children' = children)]_vars

\* C3 (stop cascades): stop of a registered identity stops and unregisters
\* the actor and every descendant of it, and no other actor.
C3_StopCascades ==
    [][(budget'.stop # budget.stop /\ Lookup(actors, last'.who) # NoActor)
       => LET Kids(x) == IF Lookup(actors, x) = NoActor THEN {} ELSE children[actors[x]]
              Grow(S) == S \cup UNION {Kids(x) : x \in S}
              \* the identities are three, so three rounds reach every descendant
              D == Grow(Grow(Grow({last'.who}))) \cap {x \in Ids : actors[x] # NoActor}
          IN /\ last'.err = "none"
             /\ \A x \in Ids : actors'[x] = IF x \in D THEN NoActor ELSE actors[x]
             /\ \A x \in D : ~running'[actors[x]]
             /\ \A i \in Actors : (\A x \in D : actors[x] # i) => running'[i] = running[i]]_vars

\* C4 (handler failure isolation): after a handler of an actor failed, every
\* envelope waiting in the actor's mailbox is still passed to the handler,
\* unless the actor is stopped.
C4_FailureIsolation ==
    \A i \in Actors : \A n \in (0 - FailSends) .. FailSends :
        ((state[i] = "error" \/ (last.op = "failed" /\ last.who = i))
            /\ \E k \in DOMAIN mailbox[i] : mailbox[i][k].id = n)
        ~> ((\E k \in DOMAIN handled[i] : handled[i][k].id = n) \/ ~running[i])

\* a handler failed and a later envelope was passed to the handler
C4_Witness ==
    /\ last.op = "failed"
    /\ state[last.who] = "error"
    /\ \E p \in DOMAIN handled[last.who] :
          handled[last.who][p] = last.aux /\ p < Len(handled[last.who])

\* C5 (ask returns the matching reply): a call of ask to whose reply_to
\* mailbox a correlated reply was sent while it waited returns that reply.
C5_AskReturnsReply ==
    \A k \in AskSlots :
        (asks[k].matched /\ asks[k].status # "waiting")
        => (asks[k].status = "returned" /\ Correlated(asks[k], asks[k].result))

\* C6 (ask timeout): a waiting call of ask that no correlated reply reaches
\* fails with a timeout, and only once its timeout has elapsed.
C6_AskTimesOut ==
    /\ \A k \in AskSlots :
          (asks[k].status = "waiting" /\ ~asks[k].matched)
          ~> (asks[k].status = "timeout" \/ asks[k].matched)
    /\ [](\A k \in AskSlots : asks[k].status = "timeout" => asks[k].left = 0)

\* a call timed out and no correlated reply had been sent
C6_Witness ==
    \E k \in AskSlots :
        /\ asks[k].status = "timeout" /\ ~asks[k].matched
        /\ last.op = "ask_timeout" /\ last.aux = asks[k].req

\* C7 (no cross-talk): a call of ask returns only an envelope that carries
\* the id of the call's own request as correlation_id.
C7_NoCrossTalk ==
    \A k \in AskSlots :
        asks[k].status = "returned"
        => (/\ asks[k].result.correlation_id = asks[k].req.id
            /\ asks[k].result.recipient = asks[k].req.reply_to)

\* a reply to one call reached the caller while another call with the same
\* reply_to was waiting, and the other call did not take it
C7_Witness ==
    \E j, k \in AskSlots :
        /\ j # k
        /\ asks[j].req.reply_to = asks[k].req.reply_to
        /\ asks[k].status = "waiting"
        /\ last.op = "reply" /\ last.aux[1] = asks[j].req
        /\ Lookup(actors, last.aux[2].recipient) # NoActor
        /\ \E p \in DOMAIN mailbox[actors[last.aux[2].recipient]] :
              mailbox[actors[last.aux[2].recipient]][p] = last.aux[2]

\* C8 (send to an absent recipient): send and tell to an identity that is
\* not registered raise nothing, enqueue nothing and leave the registry alone.
C8_SendToAbsent ==
    [][(budget'.send # budget.send /\ last'.op \in {"send", "tell"}
            /\ Lookup(actors, last'.who) = NoActor)
       => (last'.err = "none" /\ mailbox' = mailbox /\ actors' = actors)]_vars

\* an envelope was sent to the identity of an actor that had been stopped
C8_Witness ==
    /\ last.op \in {"send", "tell"} /\ last.who = "a" /\ last.err = "none"
    /\ actors["a"] = NoActor
    /\ budget.stop < SendStops
    /\ sent # <<>> /\ sent[Len(sent)] = last.aux

\* C9 (broadcast): broadcast puts one copy of the envelope, addressed to the
\* identity, into the mailbox of the registered actor of every occurrence of
\* an identity in the list, skips unregistered identities, and raises nothing.
C9_Broadcast ==
    [][(budget'.send # budget.send /\ last'.op = "broadcast")
       => LET ids == last'.who
              n(i) == Cardinality({k \in DOMAIN ids : Lookup(actors, ids[k]) = i})
          IN /\ last'.err = "none"
             /\ actors' = actors
             /\ \A i \in Actors :
                   /\ Len(mailbox'[i]) = Len(mailbox[i]) + n(i)
                   /\ SubSeq(mailbox'[i], 1, Len(mailbox[i])) = mailbox[i]
                   /\ \A k \in Len(mailbox[i]) + 1 .. Len(mailbox'[i]) :
                         mailbox'[i][k] = [last'.aux EXCEPT !.recipient = ActorId(i)]]_vars

\* a list naming a registered identity twice and an unregistered one was broadcast
C9_Witness ==
    /\ last.op = "broadcast"
    /\ last.who = <<"a", "b", "a">>
    /\ actors["a"] = 1 /\ actors["b"] = NoActor
    /\ Len(mailbox[1]) = 2 /\ mailbox[2] = <<>>
    /\ \A k \in DOMAIN mailbox[1] : mailbox[1][k].id = last.aux.id

\* C10 (responders echo the request id): the reply a CommandActor or a
\* WebSearchActor sends carries the id of the request as correlation_id.
C10_ReplyEchoesId ==
    (last.op = "reply" /\ role[last.who] \in {"command", "websearch"})
    => last.aux[2].correlation_id = last.aux[1].id

\* C11 (spawn under a registered parent): spawn(actor, parent), also through
\* spawn_child, returns the actor's own identity; the registry then holds the
\* actor under it, the actor's parent is the given identity and the identity
\* is in the child set of the actor registered as the parent.
C11_SpawnUnderParent ==
    [][(budget'.spawn # budget.spawn /\ last'.op = "spawn"
            /\ Lookup(actors, last'.aux) # NoActor)
       => \E i \in Actors :
             /\ tasks' = tasks (+) SetToBag({Task(i, "created", NoMsg)})
             /\ last'.err = "none"
             /\ last'.who = ActorId(i)
             /\ actors'[last'.who] = i
             /\ parent_id'[i] = last'.aux
             /\ Lookup(actors', last'.aux) # NoActor
             /\ last'.who \in children'[actors'[last'.aux]]]_vars

\* "c" was spawned as a child of "b", itself a child of "a"
C11_Witness ==
    /\ last = Call("spawn", "c", "b", "none")
    /\ actors["a"] = 1 /\ actors["b"] = 2 /\ actors["c"] = 3
    /\ parent_id[2] = "a" /\ parent_id[3] = "b"
    /\ children[1] = {"b"} /\ children[2] = {"c"}

\* C12 (no loss, no duplication): every envelope put in the mailbox of a
\* registered actor is passed to that actor's handler, unless the actor is
\* stopped (is out of the registry) at some later time; an actor is handed only envelopes that were sent,
\* addressed to it, as they were sent, and each of them once.
C12_DeliveredOnce ==
    /\ \A i \in Actors : \A n \in (0 - FailSends) .. FailSends :
          (\E k \in DOMAIN mailbox[i] : mailbox[i][k].id = n)
          ~> ((\E k \in DOMAIN handled[i] : handled[i][k].id = n)
                 \/ actors[ActorId(i)] # i)
    /\ [](\A i \in Actors : \A k \in DOMAIN handled[i] :
             /\ handled[i][k].recipient = ActorId(i)
             /\ \E j \in DOMAIN sent : sent[j] = handled[i][k]
             /\ \A j \in DOMAIN handled[i] : handled[i][j].id = handled[i][k].id => j = k)

\* C13 (failure notification): whenever a handler raises and the actor's
\* parent is registered, exactly one child_error envelope, sent by the failing
\* actor, is appended to the parent's mailbox, and no other mailbox changes.
C13_ParentNotified ==
    [][(budget'.fail # budget.fail /\ last'.op = "failed"
            /\ Lookup(actors, parent_id[last'.who]) # NoActor)
       => LET i == last'.who
              par == actors[parent_id[i]]
          IN /\ Len(mailbox'[par]) = Len(mailbox[par]) + 1
             /\ SubSeq(mailbox'[par], 1, Len(mailbox[par])) = mailbox[par]
             /\ mailbox'[par][Len(mailbox'[par])].sender = ActorId(i)
             /\ mailbox'[par][Len(mailbox'[par])].recipient = parent_id[i]
             /\ mailbox'[par][Len(mailbox'[par])].message_type = "child_error"
             /\ \A j \in Actors \ {par} : mailbox'[j] = mailbox[j]]_vars

\* C14 (stop is idempotent): stop of an identity that is not registered
\* raises nothing and changes neither the registry nor any actor's fields,
\* mailbox or dispatch task.
C14_StopUnknown ==
    [][(budget'.stop # budget.stop /\ Lookup(actors, last'.who) = NoActor)
       => (/\ last'.err = "none"
           /\ UNCHANGED <<actors, system, parent_id, children, state, running, mailbox,
                          tasks>>)]_vars

\* "b" was stopped a second time, its task still on its way out
C14_Witness ==
    /\ last = Call("stop", "b", NoActor, "none")
    /\ budget.stop = KinStops - 2
    /\ actors["a"] = 1 /\ actors["b"] = NoActor
    /\ system[2] /\ ~running[2]
    /\ \E t \in Live : t.actor = 2

\* C15 (stop_all): a stop_all that returns leaves none of the identities of
\* its snapshot registered; an identity that the cascade of an earlier stop
\* of the iteration has removed raises nothing: stop_all raises only where
\* the recorded child relation has a cycle (the RecursionError of stop).
C15_StopAll ==
    [][(budget'.stop # budget.stop /\ last'.op = "stop_all")
       => LET Kids(x) == IF Lookup(actors, x) = NoActor THEN {}
                         ELSE {y \in children[actors[x]] : actors[y] # NoActor}
              Grow(S) == S \cup UNION {Kids(x) : x \in S}
              Cyclic == \E x \in Ids : actors[x] # NoActor /\ x \in Grow(Grow(Grow(Kids(x))))
          IN /\ last'.err = "none" => \A x \in Ids : actors'[x] = NoActor
             /\ last'.err # "none" => Cyclic
             /\ last'.err = "none"
                   => \A x \in Ids : actors[x] # NoActor => ~running'[actors[x]]]_vars

\* stop_all went through "a" and then "b", a child of "a" that the cascade
\* of stop("a") had already removed
C15_Witness ==
    /\ last.op = "stop_all" /\ last.err = "none"
    /\ last.who = <<"a", "b">>
    /\ "b" \in last.aux.children[last.aux.actors["a"]]
    /\ \A x \in Ids : actors[x] = NoActor

\* C16 (rejected commands are not run): for an execute_command envelope whose
\* command the safety agent rejects, CommandActor does not invoke the
\* executor, and the result it sends has success = false.
C16_RejectedNotRun ==
    (last.op \in {"reply", "noreply"} /\ role[last.who] = "command"
        /\ last.aux[4] = "rejected")
    => (~last.aux[3] /\ (last.op = "reply" => last.aux[2].payload # "success"))

\* a rejected command was answered with a failure
C16_Witness ==
    /\ last.op = "reply" /\ role[last.who] = "command"
    /\ last.aux[1].message_type = "execute_command"
    /\ last.aux[4] = "rejected" /\ last.aux[2].payload = "rejected"
    /\ sent[Len(sent)] = last.aux[2]

\* C17 (CommandActor always replies): handling an execute_command envelope
\* with an ExecuteCommand payload and reply_to set, CommandActor hands send
\* exactly one envelope, addressed to reply_to and of kind response, whatever
\* the safety agent and the executor did.
C17_CommandReplies ==
    [][(last' # last /\ last'.op \in {"reply", "noreply"}
            /\ role[last'.who] = "command"
            /\ last'.aux[1].message_type = "execute_command"
            /\ last'.aux[1].payload = "ExecuteCommand"
            /\ last'.aux[1].reply_to # None)
       => (/\ Len(sent') = Len(sent) + 1
           /\ SubSeq(sent', 1, Len(sent)) = sent
           /\ sent'[Len(sent')].recipient = last'.aux[1].reply_to
           /\ sent'[Len(sent')].sender = ActorId(last'.who)
           /\ sent'[Len(sent')].message_type = "response")]_vars

\* the executor raised and the caller was sent a response
C17_Witness ==
    /\ last.op = "reply" /\ role[last.who] = "command"
    /\ last.aux[3] /\ last.aux[4] = "failed"
    /\ last.aux[2].recipient = "a" /\ last.aux[2].message_type = "response"
    /\ sent[Len(sent)] = last.aux[2]
    /\ \E k \in DOMAIN mailbox[1] : mailbox[1][k] = last.aux[2]

\* C18 (SubAgent replies): handling a delegate_task envelope with reply_to
\* set, SubAgent hands send exactly one envelope, addressed to reply_to, with
\* the request's id as correlation_id: a response carrying the result when the
\* provider returns, an error carrying the failure when the provider raises.
C18_SubAgentReplies ==
    [][(last' # last /\ last'.op \in {"reply", "noreply"}
            /\ role[last'.who] = "subagent"
            /\ last'.aux[1].message_type = "delegate_task"
            /\ last'.aux[1].reply_to # None)
       => (/\ Len(sent') = Len(sent) + 1
           /\ SubSeq(sent', 1, Len(sent)) = sent
           /\ sent'[Len(sent')].recipient = last'.aux[1].reply_to
           /\ sent'[Len(sent')].correlation_id = last'.aux[1].id
           /\ last'.aux[3]
           /\ last'.aux[4] = "success"
                 => (/\ sent'[Len(sent')].message_type = "response"
                     /\ sent'[Len(sent')].payload = "success")
           /\ last'.aux[4] # "success"
                 => (/\ sent'[Len(sent')].message_type = "error"
                     /\ sent'[Len(sent')].payload # "success"))]_vars

\* the provider raised and the caller was sent an error echoing the request's id
C18_Witness ==
    /\ last.op = "reply" /\ role[last.who] = "subagent"
    /\ last.aux[4] = "failed"
    /\ last.aux[2].message_type = "error" /\ last.aux[2].recipient = "a"
    /\ last.aux[2].correlation_id = last.aux[1].id
    /\ sent[Len(sent)] = last.aux[2]

C20_StopEndsLoop ==
    \A i \in Actors :
        (/\ last.err = "none"
         /\ \/ last.op = "stop" /\ last.aux = i
            \/ last.op = "stop_all" /\ last.aux.actors[ActorId(i)] = i)
        ~> (state[i] = "stopped")

\* C21 (no handling after stop): once stop(identity) has been invoked for an
\* actor (it was spawned and stop took it out of the registry), that actor
\* begins no new handler invocation: no envelope is dequeued and passed to
\* its handler any more, the pending ones are discarded.
C21_NoHandlingAfterStop ==
    [][\A i \in Actors :
          (system[i] /\ actors[ActorId(i)] # i) => handled'[i] = handled[i]]_vars

\* C22 (one handler at a time): in every reachable state, for every actor,
\* at most one handler invocation of that actor is in progress: an envelope
\* is dequeued for the actor only after the handler of the previous one has
\* completed.
C22_OneHandlerAtATime ==
    \A i \in Actors : \A t, u \in Live :
        (t.actor = i /\ u.actor = i /\ t.pc = "handling" /\ u.pc = "handling")
        => (t = u /\ CopiesIn(t, tasks) = 1)

\* C23 (state machine): every change of an actor's state is Idle to Running,
\* Running to Errored or Running to Stopped (Running to Running changes
\* nothing), and no change leaves Stopped.
C23_StateMachine ==
    [][\A i \in Actors :
          state'[i] # state[i]
          => <<state[i], state'[i]>> \in {<<"idle", "running">>, <<"running", "error">>,
                                          <<"running", "stopped">>}]_vars

\* C24 (registry mutations are indivisible): a stop or stop_all call takes
\* effect as one step that leaves nothing half-applied for the other tasks
\* to observe: no actor that the call signalled to stop is still routable
\* after it, and no identity that the call deleted from the registry is
\* still listed in the child set of a registered actor.
C24_MutationsIndivisible ==
    [][(budget'.stop # budget.stop)
       => /\ \A i \in Actors :
                (running[i] /\ ~running'[i]) => actors'[ActorId(i)] # i
          /\ \A x \in Ids :
                (actors[x] # NoActor /\ actors'[x] = NoActor)
                => \A j \in Actors : actors'[ActorId(j)] = j => x \notin children'[j]]_vars

\* C25 (stop terminates): in every state reachable through spawn and stop
\* calls with arbitrary parent arguments, the recorded child relation has no
\* cycle through registered actors, and every stop call returns (it does not
\* descend until the interpreter gives up).
C25_StopTerminates ==
    /\ [](LET Kids(x) == IF actors[x] = NoActor THEN {} ELSE children[actors[x]]
              Grow(S) == S \cup UNION {Kids(x) : x \in S}
          IN \A x \in Ids : actors[x] # NoActor => x \notin Grow(Grow(Kids(x))))
    /\ [][budget'.stop # budget.stop => last'.err = "none"]_vars

\* C26 (reply to a stopped requester): when a handler sends its reply to a
\* reply_to identity that is not registered any more, the reply is dropped
\* and the responder is unaffected: the send raises nothing, no mailbox
\* changes, the responder's state does not become Errored, and nothing but
\* the reply is handed to send (no child-failure envelope).
C26_ReplyToStopped ==
    [][(last' # last /\ last'.op = "reply"
           /\ Lookup(actors, last'.aux[1].reply_to) = NoActor)
       => (/\ last'.err = "none"
           /\ mailbox' = mailbox
           /\ state'[last'.who] # "error"
           /\ sent' = Append(sent, last'.aux[2])
           /\ last'.aux[2].message_type # "child_error"
           /\ actors' = actors /\ children' = children /\ running' = running)]_vars

\* "c" was spawned, sent a request and was stopped; the responder, still
\* running, replied to it and the reply reached no mailbox
C26_Witness ==
    /\ last.op = "reply" /\ last.aux[1].reply_to = "c" /\ last.aux[2].recipient = "c"
    /\ system[3] /\ actors["c"] = NoActor
    /\ mailbox[3] = <<>> /\ handled[3] = <<>>
    /\ state[2] = "running" /\ actors["b"] = 2

\* C27 (a failure stays local): a handler failure in actor X changes nothing
\* outside X but the mailbox of X's parent: the registry, the parent and the
\* child set of every actor, the state and the stop signal of every other
\* actor, every other mailbox and every other dispatch task are unchanged.
C27_FailureFrame ==
    [][(last' # last /\ last'.op = "failed")
       => LET X == last'.who
              P == Lookup(actors, parent_id[X])
          IN /\ actors' = actors /\ parent_id' = parent_id /\ children' = children
             /\ running' = running /\ system' = system
             /\ \A j \in Actors \ {X} : state'[j] = state[j]
             /\ \A j \in Actors \ {P} : mailbox'[j] = mailbox[j]
             /\ \A t \in Live : t.actor # X => CopiesIn(t, tasks') = CopiesIn(t, tasks)
             /\ \A t \in BagToSet(tasks') : t.actor # X => t \in Live]_vars

\* "b", child of the registered "a", failed on an envelope of the running
\* "c": "a" has the notification, "c" is as it was
C27_Witness ==
    /\ last.op = "failed" /\ last.err = "Exception" /\ last.who = 2
    /\ parent_id[2] = "a" /\ actors["a"] = 1 /\ actors["c"] = 3
    /\ state[2] = "error" /\ state[3] = "running" /\ mailbox[3] = <<>>
    /\ Len(mailbox[1]) = 1 /\ mailbox[1][1].message_type = "child_error"

\* C28 (a stalled handler blocks nobody): while the handler of one actor is
\* suspended on its collaborator, however long, every envelope in the
\* mailbox of another running actor is eventually passed to that actor's
\* handler, and the spawn, send and stop calls that concern other
\* identities can be made and take effect.
C28_StalledHandler ==
    /\ \A n \in 1 .. (StallSends + 1) :
          ((\E t \in Live : t.actor = 2 /\ t.pc = "handling")
              /\ \E k \in DOMAIN mailbox[1] : mailbox[1][k].id = n)
          ~> (\E k \in DOMAIN handled[1] : handled[1][k].id = n)
    /\ []((\E t \in Live : t.actor = 2 /\ t.pc = "handling") => LoopFree)
    /\ [][((\E t \in Live : t.actor = 2 /\ t.pc = "handling")
              /\ (\E t \in BagToSet(tasks') : t.actor = 2 /\ t.pc = "handling")
              /\ budget'.stop # budget.stop /\ actors["c"] = 3)
          => actors'["c"] = NoActor]_vars

\* "b" is still in its handler; meanwhile "a" has handled an envelope sent
\* after b's request, and "c" was spawned and stopped
C28_Witness ==
    /\ \E t \in Live : /\ t.actor = 2 /\ t.pc = "handling"
                       /\ \E k \in DOMAIN handled[1] : handled[1][k].id > t.msg.id
    /\ system[3] /\ actors["c"] = NoActor

\* C29 (broadcast copies): every copy broadcast hands to send equals the
\* original envelope in id, sender, payload, kind, reply_to, correlation_id
\* and timestamp, and is addressed to its target; every envelope the call
\* puts in a mailbox is such a copy; the original is as the caller built it
\* (recipient not set, the id it was given).
C29_BroadcastCopies ==
    [][(budget'.send # budget.send /\ last'.op = "broadcast")
       => LET m == last'.aux
              ids == last'.who
              Same(c) == /\ c.id = m.id /\ c.sender = m.sender /\ c.payload = m.payload
                         /\ c.message_type = m.message_type /\ c.reply_to = m.reply_to
                         /\ c.correlation_id = m.correlation_id
                         /\ c.timestamp = m.timestamp
          IN /\ Len(sent') = Len(sent) + Len(ids)
             /\ \A k \in DOMAIN ids :
                   Same(sent'[Len(sent) + k]) /\ sent'[Len(sent) + k].recipient = ids[k]
             /\ \A i \in Actors : \A k \in Len(mailbox[i]) + 1 .. Len(mailbox'[i]) :
                   Same(mailbox'[i][k]) /\ mailbox'[i][k].recipient = ActorId(i)
             /\ m.recipient = None /\ m.id = nextId /\ m.timestamp = 0]_vars

\* an envelope with sender, reply_to and correlation_id set, of kind request,
\* was broadcast to "a" and "b", both registered, and each has its copy
C29_Witness ==
    /\ last.op = "broadcast" /\ last.who = <<"a", "b">>
    /\ last.aux.sender = "c" /\ last.aux.reply_to = "c" /\ last.aux.correlation_id = 1
    /\ last.aux.message_type = "request"
    /\ Len(mailbox[1]) = 1 /\ mailbox[1][1].recipient = "a" /\ mailbox[1][1].reply_to = "c"
    /\ Len(mailbox[2]) = 1 /\ mailbox[2][1].recipient = "b" /\ mailbox[2][1].correlation_id = 1

\* C30 (the parent is set once): the parent recorded on an actor by the
\* spawn that registered it never changes afterwards, whatever spawn, stop
\* or send calls follow.
C30_ParentSetOnce ==
    [][\A i \in Actors : system[i] => parent_id'[i] = parent_id[i]]_vars
\* C31 (foreign envelopes are ignored): a CommandActor or WebSearchActor that
\* handles an envelope of another kind, or one whose payload has not the
\* shape its kind requires, does not invoke its collaborator, sends no reply
\* even if reply_to is set, does not fail (its state is unchanged and not
\* error) and returns to waiting for the next envelope.
C31_ForeignIgnored ==
    [][\A t \in Live :
        (/\ t.pc = "handling" /\ role[t.actor] \in {"command", "websearch"}
         /\ \/ t.msg.message_type # RequestKind(role[t.actor])
            \/ t.msg.payload # RequestPayload(role[t.actor])
         /\ last'.op \in {"reply", "noreply"} /\ last'.aux[1] = t.msg)
        => /\ last'.op = "noreply" /\ last'.err = "none"
           /\ ~last'.aux[3] /\ last'.aux[4] = "none"
           /\ sent' = sent /\ mailbox' = mailbox
           /\ state' = state /\ state'[t.actor] = "running"
           /\ Task(t.actor, "waiting", NoMsg) \in Live']_vars

\* an ignored envelope with reply_to set was followed by the handling of the
\* next envelope
C31_Witness ==
    /\ role[2] \in {"command", "websearch"}
    /\ Len(handled[2]) = 2
    /\ ~Accepts(role[2], handled[2][1]) /\ handled[2][1].reply_to # None
    /\ handled[2][1].message_type = RequestKind(role[2])
    /\ last.op = "reply" /\ last.aux[1] = handled[2][2]
    /\ Len(sent) = 3
\* C32 (one shared registry): however often ActorSystem is constructed, every
\* handle refers to one object with one registry, so that get_actor gives
\* the same answer through every handle, and a later construction neither
\* clears nor replaces the registered actors.
C32_SharedRegistry ==
    /\ [](\A h1 \in DOMAIN handles, h2 \in DOMAIN handles, x \in Ids :
            /\ handles[h1] = handles[h2]
            /\ GetActor(h1, x) = GetActor(h2, x)
            /\ GetActor(h1, x) = actors[x])
    /\ [][(handles' # handles /\ handles # <<>>)
           => (actors' = actors /\ owner' = owner /\ instance' = instance)]_vars

\* an actor spawned before the third construction is returned through the
\* third handle
C32_Witness ==
    /\ last.op = "construct" /\ Len(handles) = 3
    /\ actors["a"] = 1 /\ GetActor(3, "a") = 1 /\ system[1]
\* C33 (child sets are sound): every identity in the child set of a registered
\* actor P is itself registered, and the actor registered under it records P
\* as its parent.
C33_ChildrenSound ==
    \A x \in Ids : actors[x] # NoActor =>
        \A c \in children[actors[x]] :
            /\ Lookup(actors, c) # NoActor
            /\ parent_id[Lookup(actors, c)] = x

\* C34 (child sets are complete): whenever a registered actor C records parent
\* P and P is registered, C's identity is in P's child set, in whichever
\* order the two were spawned.
C34_ChildrenComplete ==
    \A c \in Ids : actors[c] # NoActor =>
        LET p == parent_id[actors[c]]
        IN (p # None /\ Lookup(actors, p) # NoActor) => c \in children[Lookup(actors, p)]
\* C35 (Errored is sticky): once a handler of an actor has failed, the actor's
\* state stays error through every later step, successfully handled
\* envelopes included, and changes only to stopped, in the step in which a
\* dispatch loop of the actor exits.
C35_ErroredSticky ==
    [][\A i \in Actors : state[i] = "error" =>
        /\ state'[i] \in {"error", "stopped"}
        /\ state'[i] = "stopped" =>
              \E t \in Live : t.actor = i /\ tasks' = Move(t, Task(i, "done", NoMsg))]_vars
\* C36 (calls on an unattached actor): on an actor whose system is not set,
\* tell returns normally, ask and spawn_child fail with RuntimeError, and
\* none of the three sends an envelope, registers an actor or changes any
\* actor's state.
C36_Unattached ==
    [][\A i \in {1, 2} :
        (/\ ~system[i] /\ last' # last
         /\ \/ last'.op = "tell" /\ last'.aux.sender = ActorId(i)
            \/ last'.op = "ask" /\ last'.who = i
            \/ last'.op \in {"spawn", "spawn_child"} /\ last'.aux = ActorId(i))
        => /\ last'.err = IF last'.op = "tell" THEN "none" ELSE "RuntimeError"
           /\ mailbox' = mailbox /\ sent' = sent
           /\ actors' = actors /\ tasks' = tasks
           /\ system' = system /\ parent_id' = parent_id /\ children' = children
           /\ state' = state /\ running' = running
           /\ \A k \in AskSlots : asks'[k].status # "waiting" \/ asks'[k] = asks[k]]_vars

\* the never spawned actor "b" has made all three calls, the last a tell to a
\* registered, running actor whose mailbox stayed empty
C36_Witness ==
    /\ ~system[2] /\ last.op = "tell" /\ last.aux.sender = "b" /\ last.who = "a"
    /\ actors["a"] = 1 /\ state[1] = "running" /\ mailbox[1] = <<>> /\ sent = <<>>
    /\ \E k \in AskSlots : asks[k].actor = 2 /\ asks[k].status = "failed"
    /\ budget.spawn = 0 /\ actors["c"] = NoActor
\* C37 (no lost update): when concurrent JSONStore.update calls on one file
\* have all returned, the file holds the result of applying every updater,
\* one after the other in some order.
C37_NoLostUpdate ==
    (\A c \in Callers : At(c, "done"))
    => /\ file # Absent
       /\ \A c \in Callers : \E k \in DOMAIN file : file[k] = c
\* C38 (run is bounded): ActorAgent.run makes at most 5 provider.generate
\* calls and ends by returning: the provider's content at the first response
\* without tool calls, or the fixed fallback text when all 5 rounds
\* contained tool calls.
C38_RunReturns ==
    /\ generated <= MaxRounds
    /\ phase \in {"thinking", "tools", "returned"}
    /\ phase = "returned" =>
          \/ result = "content" /\ toolCalls = {}
          \/ result = "fallback" /\ generated = MaxRounds
\* C39 (round trip): ActorMessage.from_dict(m.to_dict()) equals m for every
\* envelope m: to_dict yields a dict, and the envelope built from it has the
\* same id, sender, recipient, payload, reply_to, correlation_id, timestamp
\* and message_type.
C39_RoundTrip ==
    /\ wire # Raised("AttributeError")
    /\ decoded # NotCalled => decoded = envelope
====
